---- MODULE Spec2Model ----
(***************************************************************************)
(* Model of adamas: the arbitrary-precision Accumulator (src/src/accum.rs) *)
(* and the DatumSpec / Sequencer layer (src/src/data.rs).                  *)
(*                                                                         *)
(* Digit is u64 in the source.  The model keeps the word arithmetic but    *)
(* scales the word to BITS bits (Base = 2^BITS), DoubleDigit to 2*BITS     *)
(* bits and SignedDigit to the two's complement range of BITS bits.        *)
(* Vec<Digit> is a sequence, Rust index ii is sequence index ii+1.         *)
(***************************************************************************)
EXTENDS Integers, Sequences, FiniteSets, TLC

VARIABLES
    overflow_checks, \* build profile: TRUE = arithmetic overflow panics (dev/test), FALSE = wraps (release)
    data,            \* Accumulator.data
    panicked,        \* a panic! (or overflow panic) unwound out of the last call
    ret,             \* value returned by the last div / shr
    op,              \* the last Accumulator call: its name, its argument and the words before it
    dspec,           \* the DatumSpec value under use
    declared,        \* the arguments dspec was constructed from
    dcall,           \* the last DatumSpec call: its name, its input and its result
    stack,           \* the (Sequencer, list) pairs compressed into data and not yet decompressed
    call             \* the last Sequencer call and the calls of the session so far

vars == <<overflow_checks, data, panicked, ret, op, dspec, declared, dcall, stack, call>>
acc_vars == <<data, ret, op>>
datum_vars == <<dspec, declared, dcall>>
seq_vars == <<stack, call>>

\* ---------------------------------------------------------------- bounds
\* Scaled bit width of Digit (Digit::BITS).
BITS == 3
\* Most bits of storage (words * BITS) an accumulator action may leave behind.
MaxBits == 9
\* Largest `decimals` of a FixedPointRange.
MaxDecimals == 1
\* f64 inputs range over -FloatSpan .. FloatSpan.
FloatSpan == 2
\* Longest CharSet string / Enum option list.
MaxItems == 2
\* Largest count of a SequenceLength (Fixed(n), Variable(n)).
MaxCount == 2
\* Largest `place` of a direct add_at_place call.
MaxPlace == 2

\* ------------------------------------------------------------ word types
RECURSIVE Pow2(_)
Pow2(n) == IF n = 0 THEN 1 ELSE 2 * Pow2(n - 1)

Base == Pow2(BITS)
DigitMax == Base - 1
Digits == 0 .. DigitMax
DoubleBase == Base * Base

At(d, ii) == d[ii + 1]
Set(d, ii, v) == [d EXCEPT ![ii + 1] = v]

\* fuse_digits: digits[0] is the least significant digit.
fuse_digits(digits) == (digits[1] + digits[2] * Base) % DoubleBase

\* chop_digits: [lsd as Digit, msd as Digit].
chop_digits(digits) ==
    LET msd == digits \div Base
        lsd == digits - msd * Base
    IN  <<lsd % Base, msd % Base>>

\* ----------------------------------------------------------- Accumulator
new == <<>>

RECURSIVE add_at_place_grow(_, _)
add_at_place_grow(d, vec_index) ==
    IF vec_index > Len(d) THEN add_at_place_grow(Append(d, 0), vec_index) ELSE d

RECURSIVE add_at_place_carry(_, _, _)
add_at_place_carry(d, carry, vec_index) ==
    IF carry = 0 THEN d
    ELSE IF vec_index = Len(d) THEN Append(d, carry % Base)
    ELSE LET result == (carry + At(d, vec_index)) % DoubleBase
             c == chop_digits(result)
         IN  add_at_place_carry(Set(d, vec_index, c[1]), c[2], vec_index + 1)

\* add_at_place that adds into the one word at `place` and drops the carry.
add_at_place_drops_carry(d, value, place) ==
    IF value = 0 THEN d
    ELSE LET g == add_at_place_grow(d, place)
         IN  IF place = Len(g) THEN Append(g, value)
             ELSE Set(g, place, (At(g, place) + value) % Base)

add_at_place(d, value, place) ==
    IF value = 0 THEN d
    ELSE add_at_place_carry(add_at_place_grow(d, place), value, place)

add(d, value) == add_at_place(d, value, 0)

\* mul's loop body with the high half folded into the word itself instead of
\* the next more significant one.
mul_step_fold_in_place(d, value, ii) ==
    LET result == (At(d, ii) * value) % DoubleBase
        c == chop_digits(result)
    IN  Set(add_at_place(d, c[2], ii), ii, c[1])

\* One iteration of mul's loop body for index ii.
mul_step(d, value, ii) ==
    LET result == (At(d, ii) * value) % DoubleBase
        c == chop_digits(result)
    IN  Set(add_at_place(d, c[2], ii + 1), ii, c[1])

\* for ii in (0..self.len()).rev(): n indices are left, the next is n-1.
RECURSIVE mul_loop(_, _, _)
mul_loop(d, value, n) ==
    IF n = 0 THEN d ELSE mul_loop(mul_step(d, value, n - 1), value, n - 1)

mul(d, value) == mul_loop(d, value, Len(d))

\* div's loop body with the running remainder left out of the dividend.
div_step_drops_rem(st, den, ii) ==
    LET num == fuse_digits(<<At(st.data, ii), 0>>)
        result == chop_digits(num \div den)
        rem == chop_digits(num % den)
    IN  [data |-> Set(st.data, ii, result[1]), rem |-> rem[1]]

\* One iteration of div's loop body: st = [data, rem].
div_step(st, den, ii) ==
    LET num == fuse_digits(<<At(st.data, ii), st.rem>>)
        result == chop_digits(num \div den)
        rem == chop_digits(num % den)
    IN  [data |-> Set(st.data, ii, result[1]), rem |-> rem[1]]

RECURSIVE div_loop(_, _, _)
div_loop(st, den, n) ==
    IF n = 0 THEN st ELSE div_loop(div_step(st, den, n - 1), den, n - 1)

\* if let Some(msd) = self.data.last() { if *msd == 0 { self.data.pop(); } }
div_pop(d) ==
    IF Len(d) > 0 /\ d[Len(d)] = 0 THEN SubSeq(d, 1, Len(d) - 1) ELSE d

div(d, value) ==
    IF value = 0 THEN [data |-> d, ret |-> 0, panic |-> TRUE]
    ELSE LET st == div_loop([data |-> d, rem |-> 0], value, Len(d))
         IN  [data |-> div_pop(st.data), ret |-> st.rem, panic |-> FALSE]

\* One iteration of shl's loop body: st = [data, carry].
shl_step(st, shift, ii) ==
    LET result == (At(st.data, ii) * Pow2(shift) + st.carry) % DoubleBase
        c == chop_digits(result)
    IN  [data |-> Set(st.data, ii, c[1]), carry |-> c[2]]

RECURSIVE shl_loop(_, _, _)
shl_loop(st, shift, ii) ==
    IF ii = Len(st.data) THEN st ELSE shl_loop(shl_step(st, shift, ii), shift, ii + 1)

\* shl with the width check made after the words were shifted.
shl_checks_late(d, shift) ==
    LET st == shl_loop([data |-> d, carry |-> 0], shift, 0)
        shifted == IF st.carry > 0 THEN Append(st.data, st.carry % Base) ELSE st.data
    IN  [data |-> shifted, panic |-> shift > BITS]

shl(d, shift) ==
    IF shift > BITS THEN [data |-> d, panic |-> TRUE]
    ELSE LET st == shl_loop([data |-> d, carry |-> 0], shift, 0)
         IN  [data |-> IF st.carry > 0 THEN Append(st.data, st.carry) ELSE st.data,
              panic |-> FALSE]

\* One iteration of shr's loop body: st = [data, carry].
shr_step(st, shift, ii) ==
    LET fused == fuse_digits(<<0, At(st.data, ii)>>)
        shifted == fused \div Pow2(shift)
        result == (shifted + st.carry * Base) % DoubleBase
        c == chop_digits(result)
    IN  [data |-> Set(st.data, ii, c[2]), carry |-> c[1]]

RECURSIVE shr_loop(_, _, _)
shr_loop(st, shift, n) ==
    IF n = 0 THEN st ELSE shr_loop(shr_step(st, shift, n - 1), shift, n - 1)

shr_pop(d) ==
    IF Len(d) > 0 /\ d[Len(d)] = 0 THEN SubSeq(d, 1, Len(d) - 1) ELSE d

\* carry >>= Digit::BITS - shift as u32.  A shift amount equal to the width of
\* Digit is an arithmetic overflow: a panic with overflow checks, otherwise the
\* amount wraps modulo the width.
shr_final(carry, shift, checks) ==
    LET amount == BITS - shift
    IN  IF amount >= BITS
        THEN IF checks THEN [ret |-> 0, panic |-> TRUE]
             ELSE [ret |-> carry \div Pow2(amount % BITS), panic |-> FALSE]
        ELSE [ret |-> carry \div Pow2(amount), panic |-> FALSE]

shr(d, shift, checks) ==
    IF shift > BITS THEN [data |-> d, ret |-> 0, panic |-> TRUE]
    ELSE LET st == shr_loop([data |-> d, carry |-> 0], shift, Len(d))
             fin == shr_final(st.carry, shift, checks)
         IN  [data |-> shr_pop(st.data), ret |-> fin.ret, panic |-> fin.panic]

\* ------------------------------------------------------------ SignedDigit
SignedMin == 0 - (Base \div 2)
SignedMax == (Base \div 2) - 1
SignedDigits == SignedMin .. SignedMax

\* Two's complement wrap of an integer into SignedDigit (an `as SignedDigit` cast).
as_SignedDigit(x) == ((x - SignedMin) % Base) + SignedMin

\* `as Digit`: the same bits read as unsigned.
as_Digit(x) == x % Base

\* The result x of one SignedDigit + or -: out of range is a panic with overflow
\* checks and wraps without them.
signed_arith(x, checks) ==
    [val |-> as_SignedDigit(x), panic |-> checks /\ x \notin SignedDigits]

\* The result x of one Digit + or -.
digit_arith(x, checks) ==
    [val |-> x % Base, panic |-> checks /\ x \notin Digits]

\* Result<T, &str>, or a panic that unwound out of the call.
Ok(v) == [tag |-> "Ok", val |-> v]
Err == [tag |-> "Err"]
Panic == [tag |-> "Panic"]

\* ------------------------------------------------------------- DatumSpec
\* One record shape for every implementor of DatumSpec: kind names the struct,
\* the other fields are the struct's own and stay at their defaults elsewhere.
NoLookup == [x \in {} |-> 0]
Datum(kind, min, max, decimals, items, lookup) ==
    [kind |-> kind, min |-> min, max |-> max, decimals |-> decimals,
     items |-> items, lookup |-> lookup]

\* No DatumSpec value (none constructed yet, or the constructor panicked).
NoDatum == Datum("None", 0, 0, 0, <<>>, NoLookup)

\* --- Bool
Bool_new == Datum("Bool", 0, 0, 0, <<>>, NoLookup)

Bool_permutations == [val |-> 2, panic |-> FALSE]

Bool_encode(input) == Ok(IF input THEN 1 ELSE 0)

Bool_decode(input) ==
    CASE input = 0 -> Ok(FALSE)
      [] input = 1 -> Ok(TRUE)
      [] OTHER -> Err

\* --- IntRange
IntRange_new(min, max) ==
    IF min < SignedMin + 1 THEN [panic |-> TRUE, spec |-> NoDatum]
    ELSE IF min >= max THEN [panic |-> TRUE, spec |-> NoDatum]
    ELSE [panic |-> FALSE, spec |-> Datum("IntRange", min, max, 0, <<>>, NoLookup)]

IntRange_new_full == IntRange_new(SignedMin + 1, SignedMax)

\* (self.max - self.min + 1) as Digit
IntRange_permutations(self, checks) ==
    LET diff == signed_arith(self.max - self.min, checks)
        plus == signed_arith(diff.val + 1, checks)
    IN  [val |-> as_Digit(plus.val), panic |-> diff.panic \/ plus.panic]

IntRange_encode(self, input, checks) ==
    IF input < self.min \/ input > self.max THEN Err
    ELSE LET diff == signed_arith(input - self.min, checks)
         IN  IF diff.panic THEN Panic ELSE Ok(as_Digit(diff.val))

IntRange_decode(self, input, checks) ==
    LET p == IntRange_permutations(self, checks)
    IN  IF p.panic THEN Panic
        ELSE IF input >= p.val THEN Err
        ELSE Ok(as_SignedDigit(input + self.min))

\* --- CharSet
\* for ii in 0..charset.len(): panic on a key already present, else insert.
RECURSIVE CharSet_new_loop(_, _, _)
CharSet_new_loop(charset, lookup, ii) ==
    IF ii = Len(charset) THEN [panic |-> FALSE, lookup |-> lookup]
    ELSE IF At(charset, ii) \in DOMAIN lookup THEN [panic |-> TRUE, lookup |-> lookup]
    ELSE CharSet_new_loop(charset, (At(charset, ii) :> ii) @@ lookup, ii + 1)

CharSet_new(charset) ==
    LET built == CharSet_new_loop(charset, NoLookup, 0)
    IN  [panic |-> built.panic,
         spec |-> Datum("CharSet", 0, 0, 0, charset, built.lookup)]

CharSet_permutations(self) == [val |-> as_Digit(Len(self.items)), panic |-> FALSE]

CharSet_encode(self, input) ==
    IF input \notin DOMAIN self.lookup THEN Err
    ELSE Ok(as_Digit(self.lookup[input]))

CharSet_decode(self, input) ==
    LET index == input
    IN  IF index >= Len(self.items) THEN Err ELSE Ok(At(self.items, index))

\* --- Enum
RECURSIVE Enum_new_loop(_, _, _)
Enum_new_loop(options, lookup, ii) ==
    IF ii = Len(options) THEN [panic |-> FALSE, lookup |-> lookup]
    ELSE IF At(options, ii) \in DOMAIN lookup THEN [panic |-> TRUE, lookup |-> lookup]
    ELSE Enum_new_loop(options, (At(options, ii) :> ii) @@ lookup, ii + 1)

Enum_new(options) ==
    LET built == Enum_new_loop(options, NoLookup, 0)
    IN  [panic |-> built.panic,
         spec |-> Datum("Enum", 0, 0, 0, options, built.lookup)]

Enum_permutations(self) == [val |-> as_Digit(Len(self.items)), panic |-> FALSE]

Enum_encode(self, input) ==
    IF input \notin DOMAIN self.lookup THEN Err
    ELSE Ok(as_Digit(self.lookup[input]))

Enum_decode(self, input) ==
    LET index == input
    IN  IF index >= Len(self.items) THEN Err ELSE Ok(At(self.items, index))

\* --- FixedPointRange
\* An f64 is modelled by a dyadic rational: the integer x stands for
\* x / FloatDen.  Every product and quotient the code forms on these values
\* is exact in f64.
FloatDen == 2 * Pow2(MaxDecimals)

\* SignedDigit -> f64 and the `as SignedDigit` cast of an f64: truncation
\* toward zero, saturating at the ends of SignedDigit.
to_float(n) == n * FloatDen
float_as_SignedDigit(x) ==
    LET t == IF x >= 0 THEN x \div FloatDen ELSE 0 - ((0 - x) \div FloatDen)
    IN  IF t > SignedMax THEN SignedMax ELSE IF t < SignedMin THEN SignedMin ELSE t

float2fixed(value, decimals) ==
    LET abs_max_fixed == SignedMax \div Pow2(decimals)
        cast == float_as_SignedDigit(value * Pow2(decimals))
    IN  IF cast < 0 - abs_max_fixed THEN 0 - abs_max_fixed
        ELSE IF cast > abs_max_fixed THEN abs_max_fixed
        ELSE cast

fixed2float(value, decimals) == to_float(value) \div Pow2(decimals)

FixedPointRange_new(min, max, decimals) ==
    LET abs_max_fixed == SignedMax \div Pow2(decimals)
        abs_max_float == to_float(abs_max_fixed)
    IN  IF max > abs_max_float THEN [panic |-> TRUE, spec |-> NoDatum]
        ELSE IF min < 0 - abs_max_float THEN [panic |-> TRUE, spec |-> NoDatum]
        ELSE [panic |-> FALSE,
              spec |-> Datum("FixedPointRange", float2fixed(min, decimals),
                             float2fixed(max, decimals), decimals, <<>>, NoLookup)]

\* ((self.max - self.min) + 1) as Digit
FixedPointRange_permutations(self, checks) ==
    LET diff == signed_arith(self.max - self.min, checks)
        plus == signed_arith(diff.val + 1, checks)
    IN  [val |-> as_Digit(plus.val), panic |-> diff.panic \/ plus.panic]

FixedPointRange_encode(self, input, checks) ==
    LET num == float2fixed(input, self.decimals)
    IN  IF num < self.min THEN Err
        ELSE IF num > self.max THEN Err
        ELSE LET diff == signed_arith(num - self.min, checks)
             IN  IF diff.panic THEN Panic ELSE Ok(as_Digit(diff.val))

FixedPointRange_decode(self, input, checks) ==
    LET p == FixedPointRange_permutations(self, checks)
    IN  IF p.panic THEN Panic
        ELSE IF input >= p.val THEN Err
        ELSE LET num == signed_arith(as_SignedDigit(input) + self.min, checks)
             IN  IF num.panic THEN Panic ELSE Ok(fixed2float(num.val, self.decimals))

\* --- dyn DatumSpec<T>
permutations(self, checks) ==
    CASE self.kind = "Bool" -> Bool_permutations
      [] self.kind = "IntRange" -> IntRange_permutations(self, checks)
      [] self.kind = "FixedPointRange" -> FixedPointRange_permutations(self, checks)
      [] self.kind = "CharSet" -> CharSet_permutations(self)
      [] self.kind = "Enum" -> Enum_permutations(self)

encode(self, input, checks) ==
    CASE self.kind = "Bool" -> Bool_encode(input)
      [] self.kind = "IntRange" -> IntRange_encode(self, input, checks)
      [] self.kind = "FixedPointRange" -> FixedPointRange_encode(self, input, checks)
      [] self.kind = "CharSet" -> CharSet_encode(self, input)
      [] self.kind = "Enum" -> Enum_encode(self, input)

decode(self, input, checks) ==
    CASE self.kind = "Bool" -> Bool_decode(input)
      [] self.kind = "IntRange" -> IntRange_decode(self, input, checks)
      [] self.kind = "FixedPointRange" -> FixedPointRange_decode(self, input, checks)
      [] self.kind = "CharSet" -> CharSet_decode(self, input)
      [] self.kind = "Enum" -> Enum_decode(self, input)

\* ------------------------------------------------------------- Sequencer
Fixed(n) == [mode |-> "Fixed", n |-> n]
Variable(n) == [mode |-> "Variable", n |-> n]
Sequencer_new(spec, length) == [spec |-> spec, length |-> length]

RECURSIVE reverse(_)
reverse(v) == IF v = <<>> THEN <<>> ELSE Append(reverse(Tail(v)), Head(v))

\* for ii in 0..length { accum.mul(permutations);
\*                       accum.add(self.spec.encode(&values[ii]).unwrap()); }
\* values[ii] past the end of the slice and unwrap() of an Err both panic, after
\* the mul of that iteration.
RECURSIVE compress_fixed_loop(_, _, _, _, _, _, _)
compress_fixed_loop(self, values, d, perms, length, ii, checks) ==
    IF ii = length THEN [data |-> d, panic |-> FALSE]
    ELSE LET d1 == mul(d, perms)
         IN  IF ii >= Len(values) THEN [data |-> d1, panic |-> TRUE]
             ELSE LET e == encode(self.spec, At(values, ii), checks)
                  IN  IF e.tag # "Ok" THEN [data |-> d1, panic |-> TRUE]
                      ELSE compress_fixed_loop(self, values, add(d1, e.val), perms,
                                               length, ii + 1, checks)

compress_fixed(self, values, d, length, checks) ==
    LET p == permutations(self.spec, checks)
    IN  IF p.panic THEN [data |-> d, panic |-> TRUE]
        ELSE compress_fixed_loop(self, values, d, p.val, length, 0, checks)

\* for ii in 0..count { accum.mul(permutations);
\*                      accum.add(self.spec.encode(&values[ii]).unwrap() + 1); }
RECURSIVE compress_variable_loop(_, _, _, _, _, _, _)
compress_variable_loop(self, values, d, perms, count, ii, checks) ==
    IF ii = count THEN [data |-> d, panic |-> FALSE]
    ELSE LET d1 == mul(d, perms)
             e == encode(self.spec, At(values, ii), checks)
         IN  IF e.tag # "Ok" THEN [data |-> d1, panic |-> TRUE]
             ELSE LET code == digit_arith(e.val + 1, checks)
                  IN  IF code.panic THEN [data |-> d1, panic |-> TRUE]
                      ELSE compress_variable_loop(self, values, add(d1, code.val), perms,
                                                  count, ii + 1, checks)

\* compress_variable with the length check made after the terminator was
\* written.
compress_variable_checks_late(self, values, d, max_length, checks) ==
    LET p == permutations(self.spec, checks)
        perms == digit_arith(p.val + 1, checks)
        count == Len(values)
    IN  IF p.panic \/ perms.panic THEN [data |-> d, panic |-> TRUE]
        ELSE IF count > max_length THEN [data |-> mul(d, perms.val), panic |-> TRUE]
        ELSE compress_variable_loop(self, values, mul(d, perms.val), perms.val,
                                    count, 0, checks)

compress_variable(self, values, d, max_length, checks) ==
    LET p == permutations(self.spec, checks)
        perms == digit_arith(p.val + 1, checks)
        count == Len(values)
    IN  IF p.panic \/ perms.panic THEN [data |-> d, panic |-> TRUE]
        ELSE IF count > max_length THEN [data |-> d, panic |-> TRUE]
        ELSE compress_variable_loop(self, values, mul(d, perms.val), perms.val,
                                    count, 0, checks)

compress(self, values, d, checks) ==
    IF self.length.mode = "Fixed"
    THEN compress_fixed(self, values, d, self.length.n, checks)
    ELSE compress_variable(self, values, d, self.length.n, checks)

\* for _ in 0..length { decompressed.push(self.spec.decode(accum.div(permutations)).unwrap()); }
RECURSIVE decompress_fixed_loop(_, _, _, _, _, _)
decompress_fixed_loop(self, d, decompressed, perms, left, checks) ==
    IF left = 0 THEN [data |-> d, out |-> decompressed, panic |-> FALSE]
    ELSE LET q == div(d, perms)
         IN  IF q.panic THEN [data |-> q.data, out |-> <<>>, panic |-> TRUE]
             ELSE LET v == decode(self.spec, q.ret, checks)
                  IN  IF v.tag # "Ok" THEN [data |-> q.data, out |-> <<>>, panic |-> TRUE]
                      ELSE decompress_fixed_loop(self, q.data, Append(decompressed, v.val),
                                                 perms, left - 1, checks)

\* decompress_fixed without decompressed.reverse().
decompress_fixed_no_reverse(self, d, length, checks) ==
    LET p == permutations(self.spec, checks)
    IN  IF p.panic THEN [data |-> d, out |-> <<>>, panic |-> TRUE]
        ELSE decompress_fixed_loop(self, d, <<>>, p.val, length, checks)

decompress_fixed(self, d, length, checks) ==
    LET p == permutations(self.spec, checks)
    IN  IF p.panic THEN [data |-> d, out |-> <<>>, panic |-> TRUE]
        ELSE LET r == decompress_fixed_loop(self, d, <<>>, p.val, length, checks)
             IN  [data |-> r.data, out |-> reverse(r.out), panic |-> r.panic]

\* for _ in 0..length { let coded_value = accum.div(permutations);
\*                      if coded_value == 0 { break; }
\*                      decompressed.push(self.spec.decode(coded_value-1).unwrap()); }
RECURSIVE decompress_variable_loop(_, _, _, _, _, _)
decompress_variable_loop(self, d, decompressed, perms, left, checks) ==
    IF left = 0 THEN [data |-> d, out |-> decompressed, panic |-> FALSE]
    ELSE LET q == div(d, perms)
         IN  IF q.panic THEN [data |-> q.data, out |-> <<>>, panic |-> TRUE]
             ELSE IF q.ret = 0 THEN [data |-> q.data, out |-> decompressed, panic |-> FALSE]
             ELSE LET v == decode(self.spec, q.ret - 1, checks)
                  IN  IF v.tag # "Ok" THEN [data |-> q.data, out |-> <<>>, panic |-> TRUE]
                      ELSE decompress_variable_loop(self, q.data, Append(decompressed, v.val),
                                                    perms, left - 1, checks)

decompress_variable(self, d, length, checks) ==
    LET p == permutations(self.spec, checks)
        perms == digit_arith(p.val + 1, checks)
    IN  IF p.panic \/ perms.panic THEN [data |-> d, out |-> <<>>, panic |-> TRUE]
        ELSE LET r == decompress_variable_loop(self, d, <<>>, perms.val, length, checks)
             IN  [data |-> r.data, out |-> reverse(r.out), panic |-> r.panic]

decompress(self, d, checks) ==
    IF self.length.mode = "Fixed"
    THEN decompress_fixed(self, d, self.length.n, checks)
    ELSE decompress_variable(self, d, self.length.n, checks)

\* ------------------------------------------------- accumulator state machine
ShiftArgs == 0 .. (BITS + 1)

\* The number a word sequence stands for (least significant word first).
RECURSIVE Value(_)
Value(d) == IF d = <<>> THEN 0 ELSE d[1] + Base * Value(Tail(d))

Fits(d) == Len(d) * BITS <= MaxBits

\* op.pre: the words before the call.  op.paired: the call is a shr(n) that
\* directly follows a successful shl(n); op.pair_pre: the words before that shl.
Call(name, arg) ==
    [name |-> name, arg |-> arg, pre |-> data, paired |-> FALSE, pair_pre |-> <<>>]

NoCall == [name |-> "none"]

Init ==
    /\ overflow_checks \in BOOLEAN
    /\ data = new
    /\ panicked = FALSE
    /\ ret = 0
    /\ op = [name |-> "new", arg |-> 0, pre |-> <<>>, paired |-> FALSE, pair_pre |-> <<>>]
    /\ dspec = NoDatum
    /\ declared = <<>>
    /\ dcall = NoCall
    /\ stack = <<>>
    /\ call = NoCall

Add(value) ==
    /\ ~panicked
    /\ Fits(add(data, value))
    /\ data' = add(data, value)
    /\ ret' = 0
    /\ op' = Call("add", value)
    /\ UNCHANGED <<overflow_checks, panicked, datum_vars, seq_vars>>

Mul(value) ==
    /\ ~panicked
    /\ Fits(mul(data, value))
    /\ data' = mul(data, value)
    /\ ret' = 0
    /\ op' = Call("mul", value)
    /\ UNCHANGED <<overflow_checks, panicked, datum_vars, seq_vars>>

Div(value) ==
    /\ ~panicked
    /\ LET r == div(data, value)
       IN  /\ data' = r.data
           /\ ret' = r.ret
           /\ panicked' = r.panic
    /\ op' = Call("div", value)
    /\ UNCHANGED <<overflow_checks, datum_vars, seq_vars>>

Shl(shift) ==
    /\ ~panicked
    /\ LET r == shl(data, shift)
       IN  /\ Fits(r.data)
           /\ data' = r.data
           /\ panicked' = r.panic
    /\ ret' = 0
    /\ op' = Call("shl", shift)
    /\ UNCHANGED <<overflow_checks, datum_vars, seq_vars>>

Shr(shift) ==
    /\ ~panicked
    /\ LET r == shr(data, shift, overflow_checks)
       IN  /\ data' = r.data
           /\ ret' = r.ret
           /\ panicked' = r.panic
    /\ op' = IF op.name = "shl" /\ op.arg = shift
             THEN [Call("shr", shift) EXCEPT !.paired = TRUE, !.pair_pre = op.pre]
             ELSE Call("shr", shift)
    /\ UNCHANGED <<overflow_checks, datum_vars, seq_vars>>

Next ==
    \/ \E value \in Digits : Add(value)
    \/ \E value \in Digits : Mul(value)
    \/ \E value \in Digits : Div(value)
    \/ \E shift \in ShiftArgs : Shl(shift)
    \/ \E shift \in ShiftArgs : Shr(shift)

Spec == Init /\ [][Next]_vars

\* ------------------------------------------------------ accumulator claims

\* C3: after any sequence of successful add, mul, div, shl and shr calls the
\* word sequence is empty or its most significant (last) word is nonzero.
C3_Trimmed ==
    ~panicked => (data = <<>> \/ data[Len(data)] # 0)

\* C4: div(b) with b # 0 on the value a returns r and leaves q with
\* a = q*b + r and 0 <= r < b; div(1) returns 0 and keeps the value.
C4_DivIsFloorDivision ==
    (op.name = "div" /\ op.arg # 0) =>
        /\ ~panicked
        /\ Value(op.pre) = Value(data) * op.arg + ret
        /\ 0 <= ret /\ ret < op.arg
        /\ (op.arg = 1 => (ret = 0 /\ Value(data) = Value(op.pre)))

\* A division of at least three words by b > 1 that leaves a remainder and
\* drops the most significant word.
C4_Witness ==
    /\ op.name = "div" /\ op.arg > 1 /\ ~panicked
    /\ Len(op.pre) >= 3 /\ Len(data) < Len(op.pre)
    /\ ret > 0

\* C5: mul(v) on the value a leaves exactly a*v.
C5_MulIsProduct ==
    op.name = "mul" => Value(data) = Value(op.pre) * op.arg

\* The words of mul after the indices n-1 .. stop have been processed.
RECURSIVE MulDownTo(_, _, _, _)
MulDownTo(d, value, n, stop) ==
    IF n = stop THEN d ELSE MulDownTo(mul_step(d, value, n - 1), value, n - 1, stop)

\* At index ii the folded high half overflows word ii+1 and the carry goes on
\* into word ii+2.
CarryRipplesAt(d0, value, ii) ==
    LET d == MulDownTo(d0, value, Len(d0), ii + 1)
        msb == chop_digits(At(d, ii) * value)[2]
    IN  /\ Len(d) >= ii + 3
        /\ msb + At(d, ii + 1) >= Base

\* A product that got a new most significant word and in which a folded
\* carry rippled through two higher words.
C5_Witness ==
    /\ op.name = "mul"
    /\ \E ii \in 0 .. (Len(op.pre) - 1) : CarryRipplesAt(op.pre, op.arg, ii)
    /\ Len(data) = Len(op.pre) + 1

\* C6: shl(n) then shr(n), 0 <= n <= BITS, does not fail, restores the value
\* and the shr returns 0.
C6_ShlShrRestores ==
    (op.name = "shr" /\ op.paired) =>
        /\ ~panicked
        /\ Value(data) = Value(op.pair_pre)
        /\ ret = 0

\* C7: div(0), shl(s) and shr(s) with s > BITS fail, and the words after the
\* failure are the words before the call.
C7_FailedCallLeavesWords ==
    (\/ op.name = "div" /\ op.arg = 0
     \/ op.name \in {"shl", "shr"} /\ op.arg > BITS) =>
        (panicked /\ data = op.pre)

C7_WitnessDiv == panicked /\ op.name = "div" /\ op.arg = 0 /\ Len(op.pre) >= 2
C7_WitnessShl == panicked /\ op.name = "shl" /\ op.arg > BITS /\ Len(op.pre) >= 2
C7_WitnessShr == panicked /\ op.name = "shr" /\ op.arg > BITS /\ Len(op.pre) >= 2

\* C17: shr(s) with 0 <= s <= BITS succeeds on the value a, leaves
\* floor(a / 2^s) and returns a mod 2^s.
C17_ShrDividesByPowerOfTwo ==
    (op.name = "shr" /\ op.arg <= BITS) =>
        /\ ~panicked
        /\ Value(data) = Value(op.pre) \div Pow2(op.arg)
        /\ ret = Value(op.pre) % Pow2(op.arg)

\* ------------------------------------------- add_at_place called directly
\* The private add_at_place, called directly as the unit tests of the module
\* do, next to add and mul.
Places == 0 .. MaxPlace

AddAtPlace(value, place) ==
    /\ ~panicked
    /\ Fits(add_at_place(data, value, place))
    /\ data' = add_at_place(data, value, place)
    /\ ret' = 0
    /\ op' = [name |-> "add_at_place", arg |-> value, place |-> place, pre |-> data,
              paired |-> FALSE, pair_pre |-> <<>>]
    /\ UNCHANGED <<overflow_checks, panicked, datum_vars, seq_vars>>

NextAddAtPlace ==
    \/ \E value \in Digits : Add(value)
    \/ \E value \in Digits : Mul(value)
    \/ \E value \in Digits, place \in Places : AddAtPlace(value, place)

SpecAddAtPlace == Init /\ [][NextAddAtPlace]_vars

\* C12: add_at_place(v, p) on the value a leaves a + v * Base^p; add(v) is
\* the case p = 0; v = 0 leaves the word sequence unchanged.
C12_AddAtPlaceAddsScaledWord ==
    /\ op.name = "add_at_place" =>
          /\ Value(data) = Value(op.pre) + op.arg * Pow2(BITS * op.place)
          /\ (op.arg = 0 => data = op.pre)
    /\ op.name = "add" =>
          /\ data = add_at_place(op.pre, op.arg, 0)
          /\ Value(data) = Value(op.pre) + op.arg
          /\ (op.arg = 0 => data = op.pre)

\* An add_at_place above the least significant word whose carry left the
\* current end and appended a new most significant word.
C12_Witness ==
    /\ op.name = "add_at_place" /\ op.place >= 1
    /\ Len(op.pre) = op.place + 1
    /\ At(op.pre, op.place) + op.arg >= Base
    /\ Len(data) = Len(op.pre) + 1

\* ---------------------------------------------------- DatumSpec state machine
Floats == (0 - FloatSpan * FloatDen) .. (FloatSpan * FloatDen)
\* Constructor bounds are drawn in steps of one half.
FloatBounds == {x \in Floats : x % (FloatDen \div 2) = 0}
Chars == {"a", "b", "c"}
Options == {"Banana", "Orange", "Apple"}

SeqsUpTo(S, n) == UNION {[1 .. k -> S] : k \in 0 .. n}

EncodeInputs(self) ==
    CASE self.kind = "Bool" -> BOOLEAN
      [] self.kind = "IntRange" -> SignedDigits
      [] self.kind = "FixedPointRange" -> Floats
      [] self.kind = "CharSet" -> Chars
      [] self.kind = "Enum" -> Options \cup {"Mango"}
      [] OTHER -> {}

InitDatum ==
    /\ overflow_checks \in BOOLEAN
    /\ data = new
    /\ panicked = FALSE
    /\ ret = 0
    /\ op = [name |-> "new", arg |-> 0, pre |-> <<>>, paired |-> FALSE, pair_pre |-> <<>>]
    /\ dspec = NoDatum
    /\ declared = <<>>
    /\ dcall = NoCall
    /\ stack = <<>>
    /\ call = NoCall

Construct(built, args) ==
    /\ ~panicked
    /\ dspec.kind = "None"
    /\ dspec' = built.spec
    /\ declared' = args
    /\ panicked' = built.panic
    /\ dcall' = [name |-> "new"]
    /\ UNCHANGED <<overflow_checks, acc_vars, seq_vars>>

NewBool == Construct([panic |-> FALSE, spec |-> Bool_new], <<>>)

NewIntRange(min, max) == Construct(IntRange_new(min, max), <<min, max>>)

NewIntRangeFull == Construct(IntRange_new_full, <<>>)

NewFixedPointRange(min, max, decimals) ==
    Construct(FixedPointRange_new(min, max, decimals), <<min, max, decimals>>)

NewCharSet(charset) == Construct(CharSet_new(charset), <<charset>>)

NewEnum(options) == Construct(Enum_new(options), <<options>>)

CallPermutations ==
    /\ ~panicked
    /\ dspec.kind # "None"
    /\ LET p == permutations(dspec, overflow_checks)
       IN  /\ dcall' = [name |-> "permutations",
                        res |-> IF p.panic THEN Panic ELSE Ok(p.val)]
           /\ panicked' = p.panic
    /\ UNCHANGED <<overflow_checks, acc_vars, dspec, declared, seq_vars>>

CallEncode(input) ==
    /\ ~panicked
    /\ dspec.kind # "None"
    /\ LET r == encode(dspec, input, overflow_checks)
       IN  /\ dcall' = [name |-> "encode", input |-> input, res |-> r]
           /\ panicked' = (r.tag = "Panic")
    /\ UNCHANGED <<overflow_checks, acc_vars, dspec, declared, seq_vars>>

\* dcall.paired: the code decoded is the one the call before, an encode of
\* dcall.orig, returned.
CallDecode(code) ==
    /\ ~panicked
    /\ dspec.kind # "None"
    /\ LET r == decode(dspec, code, overflow_checks)
           paired == dcall.name = "encode" /\ dcall.res.tag = "Ok" /\ dcall.res.val = code
       IN  /\ dcall' = IF paired
                       THEN [name |-> "decode", input |-> code, res |-> r,
                             paired |-> TRUE, orig |-> dcall.input]
                       ELSE [name |-> "decode", input |-> code, res |-> r,
                             paired |-> FALSE]
           /\ panicked' = (r.tag = "Panic")
    /\ UNCHANGED <<overflow_checks, acc_vars, dspec, declared, seq_vars>>

NextDatum ==
    \/ \E charset \in SeqsUpTo(Chars, MaxItems) : NewCharSet(charset)
    \/ \E options \in SeqsUpTo(Options, MaxItems) : NewEnum(options)
    \/ \E min \in FloatBounds, max \in FloatBounds, decimals \in 0 .. MaxDecimals :
          NewFixedPointRange(min, max, decimals)
    \/ NewBool
    \/ \E min \in SignedDigits, max \in SignedDigits : NewIntRange(min, max)
    \/ NewIntRangeFull
    \/ CallPermutations
    \/ \E input \in EncodeInputs(dspec) : CallEncode(input)
    \/ \E code \in Digits : CallDecode(code)

SpecDatum == InitDatum /\ [][NextDatum]_vars

\* The same calls in a build without overflow checks (the release profile).
InitDatumRelease == InitDatum /\ ~overflow_checks

SpecDatumRelease == InitDatumRelease /\ [][NextDatum]_vars

\* --------------------------------------------------------- DatumSpec claims

\* The `as SignedDigit` cast of value * 2^decimals before any clamp.
Quantized(value, decimals) ==
    LET x == value * Pow2(decimals)
    IN  IF x >= 0 THEN x \div FloatDen ELSE 0 - ((0 - x) \div FloatDen)

\* The values a specification declares: both booleans, min ..= max, the
\* characters / strings listed, and for a FixedPointRange the f64 values from
\* the min to the max it was constructed with.
InDomain(self, v) ==
    CASE self.kind = "Bool" -> v \in BOOLEAN
      [] self.kind = "IntRange" -> self.min <= v /\ v <= self.max
      [] self.kind = "FixedPointRange" -> declared[1] <= v /\ v <= declared[2]
      [] self.kind \in {"CharSet", "Enum"} ->
            \E i \in 1 .. Len(self.items) : self.items[i] = v

\* The values outside what a specification declares.  A FixedPointRange is
\* lossy, so a value counts as outside only when the range was declared with
\* min <= max and the value is outside those bounds by at least one step of
\* 2^-decimals.
OutOfDomain(self, v) ==
    IF self.kind = "FixedPointRange"
    THEN /\ declared[1] <= declared[2]
         /\ \/ Quantized(v, self.decimals) < Quantized(declared[1], self.decimals)
            \/ Quantized(v, self.decimals) > Quantized(declared[2], self.decimals)
    ELSE ~InDomain(self, v)

\* C8: for Bool, IntRange, CharSet and Enum and every value v of the domain,
\* encode(v) succeeds and decode(encode(v)) returns exactly v.
C8_EncodeDecodeRoundTrip ==
    dspec.kind \in {"Bool", "IntRange", "CharSet", "Enum"} =>
        /\ (dcall.name = "encode" /\ InDomain(dspec, dcall.input)) =>
              dcall.res.tag = "Ok"
        /\ (dcall.name = "decode" /\ dcall.paired /\ InDomain(dspec, dcall.orig)) =>
              (dcall.res.tag = "Ok" /\ dcall.res.val = dcall.orig)

\* C9: encode returns a code in [0, permutations()) for a value inside the
\* declared range or vocabulary and a domain error, never a code, for a value
\* outside it.
C9_EncodeInRangeOrError ==
    dcall.name = "encode" =>
        /\ InDomain(dspec, dcall.input) =>
              LET p == permutations(dspec, overflow_checks)
              IN  /\ dcall.res.tag = "Ok"
                  /\ ~p.panic
                  /\ 0 <= dcall.res.val /\ dcall.res.val < p.val
        /\ OutOfDomain(dspec, dcall.input) => dcall.res.tag = "Err"

\* C10: permutations() of every specification that was constructed without a
\* fatal failure returns a value >= 1.
C10_PermutationsAtLeastOne ==
    dcall.name = "permutations" =>
        (dcall.res.tag = "Ok" /\ dcall.res.val >= 1)

\* C14: for every IntRange the constructor accepts, permutations() yields
\* max - min + 1 as a Digit and encode(v), min <= v <= max, yields v - min;
\* an overflow of SignedDigit on the way shows as a panic of the call.
C14_IntRangeNoOverflow ==
    dspec.kind = "IntRange" =>
        /\ dcall.name = "permutations" =>
              dcall.res = Ok(dspec.max - dspec.min + 1)
        /\ (dcall.name = "encode" /\ InDomain(dspec, dcall.input)) =>
              dcall.res = Ok(dcall.input - dspec.min)

\* ---------------------------------------------------- Sequencer state machine
\* The specifications sequences are built over.  NarrowSpecs: those whose
\* radix, and radix + 1, are computed without overflow of SignedDigit / Digit.
NarrowSpecs ==
    {Bool_new,
     IntRange_new(0 - 1, 1).spec,
     CharSet_new(<<"a", "b">>).spec,
     CharSet_new(<<>>).spec,
     Enum_new(<<"Banana">>).spec}

SeqSpecs == NarrowSpecs \cup {IntRange_new_full.spec}

\* The values lists are drawn from, all inside the domain of the specification.
ListValues(self) ==
    CASE self.kind = "Bool" -> BOOLEAN
      [] self.kind = "IntRange" -> {self.min, self.max}
      [] self.kind \in {"CharSet", "Enum"} -> {self.items[i] : i \in 1 .. Len(self.items)}

Lengths == {Fixed(n) : n \in 0 .. MaxCount} \cup {Variable(n) : n \in 0 .. MaxCount}

Sequencers == {Sequencer_new(spec, length) : spec \in SeqSpecs, length \in Lengths}

NarrowSequencers == {Sequencer_new(spec, length) : spec \in NarrowSpecs, length \in Lengths}

\* The lists that meet the length constraint of a Sequencer: exactly n values
\* for Fixed(n), 0 ..= n values for Variable(n).
ListsFor(self) ==
    IF self.length.mode = "Fixed"
    THEN [1 .. self.length.n -> ListValues(self.spec)]
    ELSE SeqsUpTo(ListValues(self.spec), self.length.n)

InitSeq ==
    /\ overflow_checks \in BOOLEAN
    /\ data = new
    /\ panicked = FALSE
    /\ ret = 0
    /\ op = [name |-> "new", arg |-> 0, pre |-> <<>>, paired |-> FALSE, pair_pre |-> <<>>]
    /\ dspec = NoDatum
    /\ declared = <<>>
    /\ dcall = NoCall
    /\ stack = <<>>
    /\ call = [name |-> "new", session |-> <<>>]

\* A record session compresses up to two sequences into one accumulator and
\* then decompresses them in the reverse order.
\* call.session: "c" for each compress and "d" for each decompress so far.
\* call.pre: the words before the call.
Compress(self, values) ==
    /\ ~panicked
    /\ call.name # "decompress"
    /\ Len(stack) < 2
    /\ LET r == compress(self, values, data, overflow_checks)
       IN  /\ data' = r.data
           /\ panicked' = r.panic
    /\ stack' = Append(stack, [seq |-> self, values |-> values])
    /\ call' = [name |-> "compress", session |-> Append(call.session, "c"),
                seq |-> self, values |-> values, pre |-> data]
    /\ UNCHANGED <<overflow_checks, ret, op, datum_vars>>

\* Decompression of the sequence compressed last, with its own Sequencer.
\* call.values: the list that was compressed; call.got: the list returned.
Decompress ==
    /\ ~panicked
    /\ stack # <<>>
    /\ LET top == stack[Len(stack)]
           r == decompress(top.seq, data, overflow_checks)
       IN  /\ data' = r.data
           /\ panicked' = r.panic
           /\ call' = [name |-> "decompress", session |-> Append(call.session, "d"),
                       seq |-> top.seq, values |-> top.values, pre |-> data,
                       got |-> r.out]
    /\ stack' = SubSeq(stack, 1, Len(stack) - 1)
    /\ UNCHANGED <<overflow_checks, ret, op, datum_vars>>

NextSeq ==
    \/ \E self \in Sequencers : \E values \in ListsFor(self) : Compress(self, values)
    \/ Decompress

SpecSeq == InitSeq /\ [][NextSeq]_vars

\* The same session over NarrowSpecs only.
NextSeqNarrow ==
    \/ \E self \in NarrowSequencers : \E values \in ListsFor(self) : Compress(self, values)
    \/ Decompress

SpecSeqNarrow == InitSeq /\ [][NextSeqNarrow]_vars

\* --------------------------------------------------------- Sequencer claims

\* The last two calls were a compress and the decompress of that sequence.
Direct ==
    /\ call.name = "decompress"
    /\ call.session[Len(call.session) - 1] = "c"

\* C1: for every Sequencer and every list of values of its domain that meets
\* its length constraint, compress followed by decompress returns the list.
C1_CompressDecompressRoundTrip ==
    /\ call.name = "compress" => ~panicked
    /\ Direct => (~panicked /\ call.got = call.values)

\* C2: two sequences compressed one after the other into the same
\* accumulator and decompressed in the reverse order return both lists.
C2_TwoSequencesRoundTrip ==
    /\ (call.name = "compress" /\ Len(call.session) <= 2) => ~panicked
    /\ (call.name = "decompress" /\ Len(call.session) >= 3)
          => (~panicked /\ call.got = call.values)

\* The first compress of the session, on the new accumulator, gave these words.
FirstCompressed ==
    compress(stack[1].seq, stack[1].values, new, overflow_checks).data

\* C13: a Variable-mode decompress directly after the compress of that
\* sequence onto a prior accumulator value A leaves exactly A: every digit
\* compress wrote, the terminator included, has been consumed.
C13_VariableSymmetricOnAccumulator ==
    (/\ Direct
     /\ call.session = <<"c", "c", "d">>
     /\ call.seq.length.mode = "Variable") =>
        (~panicked /\ Value(data) = Value(FirstCompressed))

\* radix^k.
RECURSIVE Power(_, _)
Power(radix, k) == IF k = 0 THEN 1 ELSE radix * Power(radix, k - 1)

\* The codes of a list of values.
Codes(self, values) ==
    [i \in 1 .. Len(values) |-> encode(self.spec, values[i], overflow_checks).val]

\* sum over i = 1 .. k of codes[i] * radix^(n - i), n = Len(codes).
RECURSIVE DigitSum(_, _, _)
DigitSum(codes, radix, k) ==
    IF k = 0 THEN 0
    ELSE codes[k] * Power(radix, Len(codes) - k) + DigitSum(codes, radix, k - 1)

\* A * r^n + sum over i of codes[i] * r^(n - i).
MixedRadix(A, radix, codes) ==
    A * Power(radix, Len(codes)) + DigitSum(codes, radix, Len(codes))

\* C15: with the radix r = permutations() (a call that returned), Fixed(n)
\* compress of v1 .. vn onto the value A leaves
\* A * r^n + sum of encode(vi) * r^(n - i), and Fixed(n) decompress takes
\* exactly the n least significant digits off and returns them first value
\* first.
C15_FixedIsHornerMixedRadix ==
    (/\ call.name \in {"compress", "decompress"}
     /\ call.seq.length.mode = "Fixed"
     /\ ~permutations(call.seq.spec, overflow_checks).panic) =>
        LET r == permutations(call.seq.spec, overflow_checks).val
        IN  /\ ~panicked
            /\ call.name = "compress" =>
                  Value(data) = MixedRadix(Value(call.pre), r, Codes(call.seq, call.values))
            /\ call.name = "decompress" =>
                  /\ Len(call.got) = call.seq.length.n
                  /\ Value(call.pre) = MixedRadix(Value(data), r, Codes(call.seq, call.got))

\* A Fixed compress of at least two values, first and last different, onto a
\* nonzero accumulator, with a radix above two.
C15_Witness ==
    /\ call.name = "compress" /\ ~panicked
    /\ call.seq.length.mode = "Fixed" /\ call.seq.length.n >= 2
    /\ Value(call.pre) > 0
    /\ permutations(call.seq.spec, overflow_checks).val > 2
    /\ call.values[1] # call.values[Len(call.values)]

\* ------------------------------------------- compress with a list it rejects
\* Values of the element type outside the domain of the specification.
BadValues(self) ==
    CASE self.kind = "Bool" -> {}
      [] self.kind = "IntRange" -> {self.min - 1, self.max + 1} \cap SignedDigits
      [] self.kind = "CharSet" -> {"c"}
      [] self.kind = "Enum" -> {"Mango"}

\* One value more than the Sequencer's count.
TooLong(self) == [1 .. (self.length.n + 1) -> ListValues(self.spec)]

\* Fewer values than a Fixed(n) Sequencer's count.
TooShort(self) ==
    IF self.length.mode = "Fixed" /\ self.length.n >= 1
    THEN SeqsUpTo(ListValues(self.spec), self.length.n - 1)
    ELSE {}

\* Lists of an allowed length with at least one value outside the domain.
WithBadValue(self) ==
    LET any == ListValues(self.spec) \cup BadValues(self.spec)
        lists == IF self.length.mode = "Fixed"
                 THEN [1 .. self.length.n -> any]
                 ELSE SeqsUpTo(any, self.length.n)
    IN  {l \in lists : \E i \in 1 .. Len(l) : l[i] \in BadValues(self.spec)}

BadListsFor(self) == TooLong(self) \cup TooShort(self) \cup WithBadValue(self)

\* The sequences that give the accumulator its content before the rejected call.
PriorSequencers ==
    {Sequencer_new(Bool_new, Fixed(MaxCount)),
     Sequencer_new(IntRange_new(0 - 1, 1).spec, Variable(1))}

\* At most one accepted compress, then one compress with a list outside the
\* Sequencer's contract.
NextSeqErr ==
    \/ \E self \in PriorSequencers : \E values \in ListsFor(self) :
          call.session = <<>> /\ Compress(self, values)
    \/ \E self \in Sequencers : \E values \in BadListsFor(self) :
          Len(call.session) <= 1 /\ Compress(self, values)

SpecSeqErr == InitSeq /\ [][NextSeqErr]_vars

\* C11: compress on a Variable(maxN) sequence with more than maxN values fails
\* and leaves the words of the accumulator as they were before the call.
C11_TooLongFailsUnchanged ==
    (/\ call.name = "compress"
     /\ call.seq.length.mode = "Variable"
     /\ Len(call.values) > call.seq.length.n) =>
        (panicked /\ data = call.pre)

\* A rejected too-long list on an accumulator that already holds a sequence.
C11_Witness ==
    /\ call.name = "compress" /\ panicked
    /\ call.seq.length.mode = "Variable"
    /\ Len(call.values) > call.seq.length.n
    /\ Value(call.pre) > 0
    /\ ~permutations(call.seq.spec, overflow_checks).panic

\* C16: a compress that fails on a value outside the domain or on a Fixed(n)
\* list of fewer than n values leaves the words as they were before the call.
C16_FailedCompressUnchanged ==
    (/\ call.name = "compress"
     /\ panicked
     /\ call.values \in (WithBadValue(call.seq) \cup TooShort(call.seq))) =>
        data = call.pre

====
